---- MODULE Spec2Model ----
(***************************************************************************)
(* Model of SessionCache (availability distribution): a two level LRU      *)
(* cache, relay parent -> session index -> localized SessionInfo, with the *)
(* report_bad reordering of validator groups.                              *)
(*                                                                         *)
(* Source: src/node/network/availability-distribution/src/session_cache.rs *)
(***************************************************************************)
EXTENDS Integers, Sequences, FiniteSets, TLC

VARIABLES
    session_index_cache,  \* LruCache<Hash, SessionIndex>, most recently used first
    session_info_cache,   \* LruCache<SessionIndex, SessionInfo>, most recently used first
    keystore,             \* the validator keys the key store holds
    last,                 \* the last call: its arguments, result and external queries
    last_reported,        \* history: session index -> groups left by the last successful report_bad
    used,                 \* history: the relay parents whose session index was resolved, last use first
    reports               \* number of report_bad calls counted against MaxReports

vars == <<session_index_cache, session_info_cache, keystore, last, last_reported, used, reports>>

----------------------------------------------------------------------------
(* Bounds of the model *)

\* relay parents (Hash) asked about where reports are made: 1..NumContexts
NumContexts == 2
\* relay parents asked about where the key store changes: 1..NumKeyContexts
NumKeyContexts == 4
\* relay parents asked about where the caches fill up: 1..NumLruContexts
NumLruContexts == 6
\* number of report_bad calls explored
MaxReports == 2

(* Program constants *)

\* LruCache::new(5)
SessionIndexCacheCap == 5
\* LruCache::new(2)
SessionInfoCacheCap == 2

----------------------------------------------------------------------------
(* Option<T> *)

None == <<>>
Some(x) == <<x>>

Range(s) == {s[i] : i \in 1..Len(s)}

----------------------------------------------------------------------------
(* lru::LruCache as used by the cache: a sequence of entries, the most     *)
(* recently used first.                                                    *)

Keys(cache) == {cache[i].k : i \in 1..Len(cache)}

contains(cache, k) == k \in Keys(cache)

IndexOf(cache, k) == CHOOSE i \in 1..Len(cache) : cache[i].k = k

\* the value stored under k, the recency order left alone
peek(cache, k) == cache[IndexOf(cache, k)].v

Without(cache, k) == SelectSeq(cache, LAMBDA e : e.k # k)

\* a look up that leaves the recency order alone (LruCache::peek)
get_no_promote(cache, k) == cache

\* the recency effect of LruCache::get / get_mut: k becomes the most recently used
get(cache, k) ==
    IF contains(cache, k)
    THEN <<cache[IndexOf(cache, k)]>> \o Without(cache, k)
    ELSE cache

\* put that never evicts
put_keeps_all(cache, k, v, cap) == <<[k |-> k, v |-> v]>> \o Without(cache, k)

\* put that forgets to insert
put_lost(cache, k, v, cap) == cache

\* LruCache::put: update in place or insert, evicting the least recently used at capacity
put(cache, k, v, cap) ==
    IF contains(cache, k)
    THEN <<[k |-> k, v |-> v]>> \o Without(cache, k)
    ELSE IF Len(cache) >= cap
         THEN <<[k |-> k, v |-> v]>> \o SubSeq(cache, 1, cap - 1)
         ELSE <<[k |-> k, v |-> v]>> \o cache

\* a write that drops every other entry
update_alone(cache, k, v) == <<[k |-> k, v |-> v]>>

\* LruCache::get_mut followed by a write through the reference
update(cache, k, v) == <<[k |-> k, v |-> v]>> \o Without(cache, k)

----------------------------------------------------------------------------
(* The external runtime: what the two runtime queries answer.              *)

Contexts == 1..NumContexts
KeyContexts == 1..NumKeyContexts
LruContexts == 1..NumLruContexts

\* GlobalSessionInfo of each session index, None for a session the runtime does not know.
\* Validator indices are zero based, as in the source.  Sessions 2 and 4 are not self
\* consistent: validator 0 of session 2 is in no group, validator 1 of session 4 has no
\* discovery key.
RuntimeSessions ==
    << Some([validators |-> <<"v3", "v2", "v1">>,
             discovery_keys |-> <<"d3", "d2", "d1">>,
             validator_groups |-> << <<0, 1>>, <<2>> >>]),
       Some([validators |-> <<"v2", "v1", "v3", "v4">>,
             discovery_keys |-> <<"d2", "d1", "d3", "d4">>,
             validator_groups |-> << <<1, 2, 3>> >>]),
       None,
       Some([validators |-> <<"v3", "v2">>,
             discovery_keys |-> <<"d3">>,
             validator_groups |-> << <<0, 1>> >>]),
       Some([validators |-> <<"v1">>,
             discovery_keys |-> <<"d1">>,
             validator_groups |-> << <<0>> >>]) >>

SessionIndices == 1..Len(RuntimeSessions)

\* whether the runtime answers the session index query and the session info query of a
\* call: both, or one of them fails (after a failed session index query no other is made)
RuntimeAnswers ==
    {[index_ok |-> TRUE, info_ok |-> TRUE],
     [index_ok |-> FALSE, info_ok |-> TRUE],
     [index_ok |-> TRUE, info_ok |-> FALSE]}

\* request_session_index_for_child_ctx: the session index of the child of a relay parent
request_session_index_for_child_ctx(parent) == ((parent - 1) % Len(RuntimeSessions)) + 1

\* a runtime that knows every session index
request_session_info_ctx_any(parent, session_index) == RuntimeSessions[1]

\* request_session_info_ctx: Option<GlobalSessionInfo>
request_session_info_ctx(parent, session_index) == RuntimeSessions[session_index]


----------------------------------------------------------------------------
(* Local identity resolution and derivation of the localized SessionInfo.  *)

\* a key store that holds no key
has_keys_never(v) == FALSE

\* CryptoStore::has_keys for one validator id
has_keys(v) == v \in keystore

\* get_our_index that falls back to validator 0 when no key matches
get_our_index_or_first(validators) ==
    LET matches == {i \in 1..Len(validators) : has_keys(validators[i])}
        first == CHOOSE i \in matches : \A j \in matches : i <= j
    IN  IF matches = {}
        THEN [index |-> Some(0), key_queries |-> Len(validators)]
        ELSE [index |-> Some(first - 1), key_queries |-> first]

\* get_our_index that asks about every validator and keeps the last match
get_our_index_last(validators) ==
    LET matches == {i \in 1..Len(validators) : has_keys(validators[i])}
        final == CHOOSE i \in matches : \A j \in matches : i >= j
    IN  IF matches = {}
        THEN [index |-> None, key_queries |-> Len(validators)]
        ELSE [index |-> Some(final - 1), key_queries |-> Len(validators)]

\* get_our_index: the first validator the key store has the key of.
\* index: Option<ValidatorIndex> (zero based); key_queries: has_keys calls made.
get_our_index(validators) ==
    LET matches == {i \in 1..Len(validators) : has_keys(validators[i])}
        first == CHOOSE i \in matches : \A j \in matches : i <= j
    IN  IF matches = {}
        THEN [index |-> None, key_queries |-> Len(validators)]
        ELSE [index |-> Some(first - 1), key_queries |-> first]

\* a search for our group that settles for group 0 when no group holds our_index
find_our_group_or_first(validator_groups, our_index) ==
    LET hits == {i \in 1..Len(validator_groups) :
                    \E j \in 1..Len(validator_groups[i]) : validator_groups[i][j] = our_index}
    IN  IF hits = {}
        THEN Some(0)
        ELSE Some((CHOOSE i \in hits : \A j \in hits : i <= j) - 1)

\* validator_groups.iter().enumerate().find_map(..): the first group that holds our_index
find_our_group(validator_groups, our_index) ==
    LET hits == {i \in 1..Len(validator_groups) :
                    \E j \in 1..Len(validator_groups[i]) : validator_groups[i][j] = our_index}
    IN  IF hits = {}
        THEN None
        ELSE Some((CHOOSE i \in hits : \A j \in hits : i <= j) - 1)

RemoveAt(s, i) == SubSeq(s, 1, i - 1) \o SubSeq(s, i + 1, Len(s))

\* a shuffle that loses the first element
shuffle_dropping(g) == {SubSeq(g, 2, Len(g))}

\* g.shuffle(&mut rng): every order of g is a possible outcome
RECURSIVE shuffle(_)
shuffle(g) ==
    IF g = <<>>
    THEN {<<>>}
    ELSE UNION {{<<g[i]>> \o rest : rest \in shuffle(RemoveAt(g, i))} : i \in 1..Len(g)}

\* for g in validator_groups.iter_mut() { g.shuffle(&mut rng) }
shuffle_groups(validator_groups) ==
    {gs \in [1..Len(validator_groups) -> UNION {shuffle(validator_groups[i]) : i \in 1..Len(validator_groups)}] :
        \A i \in 1..Len(validator_groups) : gs[i] \in shuffle(validator_groups[i])}

\* discovery_keys.get(index.0 as usize) is Some for every index of every group
all_have_discovery_key(validator_groups, discovery_keys) ==
    \A i \in 1..Len(validator_groups) : \A j \in 1..Len(validator_groups[i]) :
        validator_groups[i][j] + 1 \in 1..Len(discovery_keys)

\* the look up of the AuthorityDiscoveryId of every index of every group
lookup_discovery(validator_groups, discovery_keys) ==
    [i \in 1..Len(validator_groups) |->
        [j \in 1..Len(validator_groups[i]) |-> discovery_keys[validator_groups[i][j] + 1]]]

NoInfo == [result |-> "None", info |-> None, info_queries |-> 1, key_queries |-> 0]

\* query_info_from_runtime: the set of its possible outcomes (the shuffle may give any
\* order); info_ok tells whether the runtime query is answered.  result is one of
\*   "Err" (the query failed), "NoSuchSession", "None" (not a validator),
\*   "Some" (info holds the SessionInfo), "Panic" (one of the two expect() failed).
query_info_from_runtime(parent, session_index, info_ok) ==
    LET reply == request_session_info_ctx(parent, session_index)
        raw == reply[1]
        our == get_our_index(raw.validators)
        our_group == find_our_group(raw.validator_groups, our.index[1])
    IN  IF ~info_ok
        THEN {[NoInfo EXCEPT !.result = "Err"]}
        ELSE IF reply = None
        THEN {[NoInfo EXCEPT !.result = "NoSuchSession"]}
        ELSE IF our.index = None
        THEN {[NoInfo EXCEPT !.key_queries = our.key_queries]}
        ELSE IF our_group = None
        THEN {[NoInfo EXCEPT !.result = "Panic", !.key_queries = our.key_queries]}
        ELSE IF ~all_have_discovery_key(raw.validator_groups, raw.discovery_keys)
        THEN {[NoInfo EXCEPT !.result = "Panic", !.key_queries = our.key_queries]}
        ELSE {[result |-> "Some",
               info |-> Some([session_index |-> session_index,
                              validator_groups |-> lookup_discovery(gs, raw.discovery_keys),
                              our_index |-> our.index[1],
                              our_group |-> our_group[1]]),
               info_queries |-> 1,
               key_queries |-> our.key_queries] :
              gs \in shuffle_groups(raw.validator_groups)}

----------------------------------------------------------------------------
(* The callers' inputs.                                                    *)

\* the callbacks F: FnOnce(&SessionInfo) -> R the callers pass
Callbacks == {"clone", "our_group_members"}

\* with_info(info)
call(with_info, info) ==
    IF with_info = "clone"
    THEN info
    ELSE info.validator_groups[info.our_group + 1]

\* the bad_validators lists reported: members and others, in both orders, and repeated
BadLists ==
    {<<>>, <<"d1">>, <<"d3">>, <<"d1", "d3">>, <<"d3", "d1">>, <<"d1", "d1">>, <<"d3", "d3">>}

\* BadValidators; group_index is zero based and may be out of range
Reports ==
    [session_index : 1..3, group_index : 0..1, bad_validators : BadLists]

\* the report made where the caches fill up
LruReports ==
    {[session_index |-> 1, group_index |-> 0, bad_validators |-> <<"d3">>]}

\* the reports made where sessions are evicted: against sessions 1 and 2, a group that
\* exists and one that does not
EvictReports ==
    [session_index : {1, 2}, group_index : {0, 2}, bad_validators : {<<"d3">>}]

NoReport == [session_index |-> 0, group_index |-> 0, bad_validators |-> <<>>]

\* the contents of the key store may change between calls
KeyStores == {{}, {"v1"}, {"v2", "v3"}}

----------------------------------------------------------------------------
(* The record of the last call.                                            *)

NoCall ==
    [op |-> "new", parent |-> 0, with_info |-> "", report |-> NoReport,
     result |-> "", value |-> None, calls |-> 0, session_index |-> None,
     index_queries |-> 0, info_queries |-> 0, key_queries |-> 0, again |-> FALSE,
     after_none |-> FALSE]

\* whether a call repeats the call before it, which succeeded
Again(op, parent, report) ==
    /\ last.op = op
    /\ last.parent = parent
    /\ last.report = report
    /\ last.result \in {"Some", "Ok"}

\* whether a call follows a call for the same relay parent that returned "not a validator"
AfterNone(parent) ==
    /\ last.op = "with_session_info"
    /\ last.parent = parent
    /\ last.result = "None"

\* a panic unwinds through the owner of the cache: no further call is made
Alive == last.result # "Panic"

\* history: the groups left by the last successful report_bad, kept while the session stays cached
KeepReported(before, after) ==
    [s \in SessionIndices |->
        IF s \in Keys(before) /\ s \in Keys(after) THEN last_reported[s] ELSE None]

----------------------------------------------------------------------------
(* SessionCache::new *)

Init ==
    /\ session_index_cache = <<>>
    /\ session_info_cache = <<>>
    /\ keystore = {"v1"}
    /\ last = NoCall
    /\ last_reported = [s \in SessionIndices |-> None]
    /\ used = <<>>
    /\ reports = 0

\* the same, the key store holding any of the key sets
InitKeys ==
    /\ session_index_cache = <<>>
    /\ session_info_cache = <<>>
    /\ keystore \in KeyStores
    /\ last = NoCall
    /\ last_reported = [s \in SessionIndices |-> None]
    /\ used = <<>>
    /\ reports = 0

----------------------------------------------------------------------------
(* SessionCache::with_session_info *)

\* a fetch made without looking at the cache first
never_cached(cache, session_index) == FALSE

\* `if let Some(info) = self.session_info_cache.get(&session_index)`: is the session cached
session_info_cached(cache, session_index) == contains(cache, session_index)

\* index_ok, info_ok: whether the runtime answers the session index query and the
\* session info query; a query that is not made is not said to fail
with_session_info(parent, with_info, index_ok, info_ok) ==
    /\ Alive
    /\ contains(session_index_cache, parent) => index_ok
    /\ LET hit == contains(session_index_cache, parent)
           this == [NoCall EXCEPT !.op = "with_session_info", !.parent = parent,
                                  !.with_info = with_info,
                                  !.again = Again("with_session_info", parent, NoReport),
                                  !.after_none = AfterNone(parent)]
           index_reply == IF index_ok THEN Some(request_session_index_for_child_ctx(parent))
                          ELSE None
       IN    IF ~hit /\ index_reply = None
             THEN \* recv_runtime(..).await? : the session index query failed
                  /\ UNCHANGED <<session_index_cache, session_info_cache, used>>
                  /\ last' = [this EXCEPT !.result = "Err", !.index_queries = 1]
             ELSE LET session_index == IF hit THEN peek(session_index_cache, parent)
                                              ELSE index_reply[1]
                      here == [this EXCEPT !.session_index = Some(session_index),
                                           !.index_queries = IF hit THEN 0 ELSE 1]
                  IN  /\ session_index_cache' =
                            IF hit THEN get(session_index_cache, parent)
                            ELSE put(session_index_cache, parent, session_index,
                                     SessionIndexCacheCap)
                      /\ used' = <<parent>> \o SelectSeq(used, LAMBDA c : c # parent)
                      /\ IF session_info_cached(session_info_cache, session_index)
                         THEN /\ info_ok
                              /\ session_info_cache' = get(session_info_cache, session_index)
                              /\ last' = [here EXCEPT
                                    !.result = "Some",
                                    !.value = Some(call(with_info,
                                                 peek(session_info_cache, session_index))),
                                    !.calls = 1]
                         ELSE \E q \in query_info_from_runtime(parent, session_index, info_ok) :
                              /\ session_info_cache' =
                                    IF q.result = "Some"
                                    THEN put(session_info_cache, session_index, q.info[1],
                                             SessionInfoCacheCap)
                                    ELSE session_info_cache
                              /\ last' = [here EXCEPT
                                    !.result = q.result,
                                    !.value = IF q.result = "Some"
                                              THEN Some(call(with_info, q.info[1]))
                                              ELSE None,
                                    !.calls = IF q.result = "Some" THEN 1 ELSE 0,
                                    !.info_queries = q.info_queries,
                                    !.key_queries = q.key_queries]
    /\ last_reported' = KeepReported(session_info_cache, session_info_cache')
    /\ UNCHANGED <<keystore, reports>>

----------------------------------------------------------------------------
(* SessionCache::report_bad *)

\* group.retain(|v| !bad_set.contains(v))
retain(group, bad_set) == SelectSeq(group, LAMBDA v : v \notin bad_set)

\* the bad validators put last instead of first
reorder_back(group, bad_validators) == retain(group, Range(bad_validators)) \o bad_validators

\* the bad validators put first without being removed from their old place
reorder_no_retain(group, bad_validators) == bad_validators \o group

\* the bad validators removed and not put back
reorder_drops(group, bad_validators) == retain(group, Range(bad_validators))

\* new_group = report.bad_validators; new_group.append(group); *group = new_group
reorder(group, bad_validators) == bad_validators \o retain(group, Range(bad_validators))

report_bad(report) ==
    /\ Alive
    /\ LET this == [NoCall EXCEPT !.op = "report_bad", !.report = report,
                                  !.again = Again("report_bad", 0, report)]
       IN  IF ~contains(session_info_cache, report.session_index)
           THEN /\ UNCHANGED <<session_info_cache, last_reported>>
                /\ last' = [this EXCEPT !.result = "SessionNotCached"]
           ELSE LET session == peek(session_info_cache, report.session_index)
                    groups == session.validator_groups
                    g == report.group_index + 1
                IN  IF g \notin 1..Len(groups)
                    THEN /\ session_info_cache' =
                                get(session_info_cache, report.session_index)
                         /\ last' = [this EXCEPT !.result = "GroupNotFound"]
                         /\ UNCHANGED last_reported
                    ELSE LET new_groups ==
                                [groups EXCEPT ![g] = reorder(groups[g], report.bad_validators)]
                         IN  /\ session_info_cache' =
                                    update(session_info_cache, report.session_index,
                                           [session EXCEPT !.validator_groups = new_groups])
                             /\ last' = [this EXCEPT !.result = "Ok"]
                             /\ last_reported' =
                                    [last_reported EXCEPT
                                        ![report.session_index] = Some(new_groups)]
    /\ UNCHANGED <<session_index_cache, keystore, used>>

----------------------------------------------------------------------------
(* The key store is an external service: its contents may change between calls *)

keystore_change(keys) ==
    /\ Alive
    /\ keys # keystore
    /\ keystore' = keys
    /\ UNCHANGED <<session_index_cache, session_info_cache, last, last_reported, used,
                   reports>>

----------------------------------------------------------------------------

\* the owner of the cache resolves relay parents and reports bad validators
Next ==
    \/ \E parent \in Contexts, ok \in RuntimeAnswers :
            with_session_info(parent, "clone", ok.index_ok, ok.info_ok)
    \/ \E report \in Reports :
            reports < MaxReports /\ report_bad(report) /\ reports' = reports + 1

Spec == Init /\ [][Next]_vars

\* the owner of the cache resolves relay parents while the key store changes
NextKeys ==
    \/ \E parent \in KeyContexts, with_info \in Callbacks, ok \in RuntimeAnswers :
            with_session_info(parent, with_info, ok.index_ok, ok.info_ok)
    \/ \E keys \in KeyStores : keystore_change(keys)

SpecKeys == InitKeys /\ [][NextKeys]_vars

\* the owner of the cache resolves more relay parents and sessions than the caches hold
NextLru ==
    \/ \E parent \in LruContexts : with_session_info(parent, "clone", TRUE, TRUE)
    \/ \E report \in LruReports : report_bad(report) /\ UNCHANGED reports

SpecLru == Init /\ [][NextLru]_vars

\* the owner of the cache resolves one relay parent of each session of the runtime, three
\* of which the node is a validator of, and reports bad validators; the session index
\* query may fail
NextEvict ==
    \/ \E parent \in SessionIndices : with_session_info(parent, "clone", TRUE, TRUE)
    \/ \E parent \in SessionIndices : with_session_info(parent, "clone", FALSE, TRUE)
    \/ \E report \in EvictReports : report_bad(report) /\ UNCHANGED reports

SpecEvict == Init /\ [][NextEvict]_vars

----------------------------------------------------------------------------
(* Properties                                                              *)

\* the keys of a cache, the most recently used first
KeySeq(cache) == [i \in 1..Len(cache) |-> cache[i].k]

Prefix(s, n) == SubSeq(s, 1, IF Len(s) < n THEN Len(s) ELSE n)

Count(s, x) == Cardinality({i \in 1..Len(s) : s[i] = x})

\* s with the elements of the sequence bad deleted
RECURSIVE Deleted(_, _)
Deleted(s, bad) ==
    IF s = <<>>
    THEN <<>>
    ELSE (IF \E i \in 1..Len(bad) : bad[i] = Head(s) THEN <<>> ELSE <<Head(s)>>)
         \o Deleted(Tail(s), bad)

\* the step is a call of with_session_info
IsLookup == last'.op = "with_session_info" /\ keystore' = keystore

\* the step is a call of report_bad
IsReport == last'.op = "report_bad" /\ reports' # reports

\* C1: the first level cache never holds more than 5 entries and the second level cache
\* never more than 2, no key twice, and both are empty right after construction.
C1_CacheBounds ==
    /\ Len(session_index_cache) <= 5
    /\ Len(session_info_cache) <= 2
    /\ Cardinality(Keys(session_index_cache)) = Len(session_index_cache)
    /\ Cardinality(Keys(session_info_cache)) = Len(session_info_cache)
    /\ last.op = "new" => session_index_cache = <<>> /\ session_info_cache = <<>>

\* both caches are full after six relay parents were resolved, three of them to sessions
\* of which the node is a validator
C1_Witness ==
    /\ Len(used) = 6
    /\ {1, 2, 5} \subseteq Range(used)
    /\ Len(session_index_cache) = 5
    /\ Len(session_info_cache) = 2

\* C2: a with_session_info call that returned a value invoked the callback exactly once,
\* the value is the callback applied to the SessionInfo cached under the session index the
\* relay parent resolves to, whose session_index field is that index; a call that returned
\* "not a validator" or an error did not invoke the callback.
C2_ResultIsCallbackOfCached ==
    last.op = "with_session_info" =>
        /\ last.result = "Some" =>
            /\ last.calls = 1
            /\ contains(session_index_cache, last.parent)
            /\ LET resolved == peek(session_index_cache, last.parent)
               IN  /\ contains(session_info_cache, resolved)
                   /\ last.value =
                        Some(call(last.with_info, peek(session_info_cache, resolved)))
                   /\ peek(session_info_cache, resolved).session_index = resolved
        /\ last.result \in {"None", "Err", "NoSuchSession"} =>
            /\ last.calls = 0
            /\ last.value = None

\* a call that derived the SessionInfo, passed it to the callback and then cached it
C2_Witness ==
    /\ last.op = "with_session_info"
    /\ last.result = "Some"
    /\ last.with_info = "our_group_members"
    /\ last.info_queries = 1
    /\ last.key_queries > 1
    /\ last.value = Some(<<"d1", "d3", "d4">>)

\* C3: a with_session_info call right after one for the same relay parent that returned
\* the callback's result makes no session index query, no session info query and no key
\* store query, and returns the callback's result.
C3_HitAvoidsRefetch ==
    [][(/\ IsLookup
        /\ last.op = "with_session_info"
        /\ last.result = "Some"
        /\ last'.parent = last.parent)
       => /\ last'.result = "Some"
          /\ last'.calls = 1
          /\ last'.index_queries = 0
          /\ last'.info_queries = 0
          /\ last'.key_queries = 0]_vars

\* the second of two calls for the same relay parent, the first of which returned a value
C3_Witness ==
    /\ last.op = "with_session_info"
    /\ last.again
    /\ last.result = "Some"
    /\ last.index_queries = 0

\* C4: a with_session_info call whose session is cached fetches nothing and hands the
\* callback the cached SessionInfo; no call replaces a cached SessionInfo.  So after a
\* successful report_bad for a session, every later call that resolves to it while it is
\* cached hands the callback the group order the last report_bad left.
C4_CachedInfoNotReplaced ==
    [][IsLookup =>
        /\ \A s \in Keys(session_info_cache) \cap Keys(session_info_cache') :
              peek(session_info_cache', s) = peek(session_info_cache, s)
        /\ \A s \in SessionIndices :
              (last'.session_index = Some(s) /\ contains(session_info_cache, s)) =>
                  /\ last'.result = "Some"
                  /\ last'.info_queries = 0
                  /\ last'.key_queries = 0
                  /\ last'.value =
                        Some(call(last'.with_info, peek(session_info_cache, s)))
                  /\ (last_reported[s] # None /\ last'.with_info = "clone") =>
                        last'.value[1].validator_groups = last_reported[s][1]]_vars

\* a call that found session 1 cached after a report had put d1, not a member, first
C4_Witness ==
    /\ last.op = "with_session_info"
    /\ last.result = "Some"
    /\ last.session_index = Some(1)
    /\ last.info_queries = 0
    /\ last_reported[1] # None
    /\ last.value[1].validator_groups = last_reported[1][1]
    /\ last.value[1].validator_groups[1] = <<"d1", "d3", "d2">>

\* C5: after a successful report_bad the named group is bad_validators, in the order
\* given, followed by the members of the previous group that are not in bad_validators, in
\* their previous order.
C5_BadFirstThenRest ==
    [][(IsReport /\ last'.result = "Ok") =>
        LET r == last'.report
            old == peek(session_info_cache, r.session_index).validator_groups[r.group_index + 1]
            new == peek(session_info_cache', r.session_index).validator_groups[r.group_index + 1]
        IN  new = r.bad_validators \o Deleted(old, r.bad_validators)]_vars

\* the report of d3 and d1 against the group d1, d3, d4 (in some order) of session 2
C5_Witness ==
    /\ last.op = "report_bad"
    /\ last.result = "Ok"
    /\ last.report = [session_index |-> 2, group_index |-> 0, bad_validators |-> <<"d3", "d1">>]
    /\ contains(session_info_cache, 2)
    /\ peek(session_info_cache, 2).validator_groups[1] = <<"d3", "d1", "d4">>

\* C6: while a SessionInfo stays cached, the multiset of identities of each of its groups
\* never changes, whatever the calls and whatever the reports name.
C6_MembershipNeverChanges ==
    [][\A s \in Keys(session_info_cache) \cap Keys(session_info_cache') :
        LET old == peek(session_info_cache, s).validator_groups
            new == peek(session_info_cache', s).validator_groups
        IN  /\ Len(new) = Len(old)
            /\ \A g \in 1..Len(old) : \A x \in Range(old[g]) \cup Range(new[g]) :
                    Count(new[g], x) = Count(old[g], x)]_vars

\* C7: report_bad against a session that is not cached fails with the session-not-cached
\* error, against a cached session and a group index out of range with the group-not-found
\* error, and in both cases both caches are left as they were, recency order included.
C7_FailedReportChangesNothing ==
    [][IsReport =>
        LET r == last'.report
            cached == contains(session_info_cache, r.session_index)
            groups == peek(session_info_cache, r.session_index).validator_groups
        IN  /\ ~cached =>
                /\ last'.result = "SessionNotCached"
                /\ session_index_cache' = session_index_cache
                /\ session_info_cache' = session_info_cache
            /\ (cached /\ r.group_index + 1 \notin 1..Len(groups)) =>
                /\ last'.result = "GroupNotFound"
                /\ session_index_cache' = session_index_cache
                /\ session_info_cache' = session_info_cache]_vars

\* C8: a successful report_bad repeated right away leaves both caches as the first one
\* left them.
C8_ReportIdempotent ==
    [][(/\ IsReport
        /\ last.op = "report_bad"
        /\ last.result = "Ok"
        /\ last'.report = last.report)
       => /\ last'.result = "Ok"
          /\ session_info_cache' = session_info_cache
          /\ session_index_cache' = session_index_cache]_vars

\* the second of two equal reports that name d1, not a member, and d3, a member
C8_Witness ==
    /\ last.op = "report_bad"
    /\ last.again
    /\ last.result = "Ok"
    /\ last.report = [session_index |-> 1, group_index |-> 0, bad_validators |-> <<"d1", "d3">>]

\* C9: a call whose identity resolution finds no key returns "not a validator", leaves the
\* second level cache as it was and leaves relay parent -> session index in the first level
\* cache; a SessionInfo enters the second level cache only from a call that returned a
\* value and found the key of the validator at its our_index in the key store.
C9_NotValidatorCachesNoInfo ==
    [][/\ IsLookup =>
            /\ last'.result = "None" =>
                /\ session_info_cache' = session_info_cache
                /\ contains(session_index_cache', last'.parent)
                /\ last'.session_index = Some(peek(session_index_cache', last'.parent))
                /\ ~contains(session_info_cache', last'.session_index[1])
            /\ \A s \in SessionIndices :
                (/\ last'.session_index = Some(s)
                 /\ last'.info_queries = 1
                 /\ last'.result # "Err"
                 /\ RuntimeSessions[s] # None)
                => (last'.result = "None"
                      <=> \A i \in 1..Len(RuntimeSessions[s][1].validators) :
                              RuntimeSessions[s][1].validators[i] \notin keystore)
       /\ \A s \in Keys(session_info_cache') \ Keys(session_info_cache) :
            /\ IsLookup
            /\ last'.result = "Some"
            /\ last'.session_index = Some(s)
            /\ RuntimeSessions[s][1].validators[peek(session_info_cache', s).our_index + 1]
                    \in keystore]_vars

\* a call that found no key while another session is cached
C9_Witness ==
    /\ last.op = "with_session_info"
    /\ last.result = "None"
    /\ last.key_queries > 0
    /\ contains(session_index_cache, last.parent)
    /\ ~contains(session_info_cache, peek(session_index_cache, last.parent))
    /\ session_info_cache # <<>>

\* C10: the first level cache holds the (up to 5) most recently used relay parents whose
\* session index was resolved, in the order of their last use, each with its session index,
\* and a call makes a session index query exactly for a relay parent that is not among them.
C10_FirstLevelIsLru ==
    [][/\ KeySeq(session_index_cache') = Prefix(used', 5)
       /\ \A i \in 1..Len(session_index_cache') :
            session_index_cache'[i].v =
                request_session_index_for_child_ctx(session_index_cache'[i].k)
       /\ IsLookup =>
            (last'.index_queries = 0 <=> last'.parent \in Range(Prefix(used, 5)))]_vars

\* after a sixth relay parent was resolved, one of the five kept is found without a query
C10_Witness ==
    /\ Len(used) = 6
    /\ last.op = "with_session_info"
    /\ last.index_queries = 0
    /\ last.result = "Some"

\* C11: a SessionInfo inserted for a session that is not cached while the second level
\* cache holds 2 entries evicts exactly the least recently used of the two and keeps the
\* other one as it was; a call fetches no session info exactly when its session is one of
\* the cached ones.
C11_SecondLevelEvictsLru ==
    [][IsLookup =>
        \A s \in SessionIndices :
            last'.session_index = Some(s) =>
                /\ last'.info_queries = 0 <=> s \in Keys(session_info_cache)
                /\ (/\ s \notin Keys(session_info_cache)
                    /\ last'.result = "Some"
                    /\ Len(session_info_cache) = 2) =>
                        /\ Len(session_info_cache') = 2
                        /\ session_info_cache'[1].k = s
                        /\ session_info_cache'[2] = session_info_cache[1]
                        /\ session_info_cache[2].k \notin Keys(session_info_cache')]_vars

\* sessions 1, 2 and 5 were cached in that order: session 5 evicted session 1, which a
\* later call had to fetch again, evicting session 2
C11_Witness ==
    /\ used = <<1, 5, 2>>
    /\ KeySeq(session_info_cache) = <<1, 5>>
    /\ last.op = "with_session_info"
    /\ last.session_index = Some(1)
    /\ last.info_queries = 1

\* C12: a with_session_info call makes each runtime query at most once; one that ends
\* with an error did not invoke the callback; when the session index query failed both
\* caches are as before; when the session info query failed, or the runtime does not know
\* the session (NoSuchSession, told apart from a failed query and from "not a
\* validator"), the second level cache is as before.
C12_FailurePropagates ==
    [][IsLookup =>
        /\ last'.index_queries <= 1
        /\ last'.info_queries <= 1
        /\ last'.result \in {"Err", "NoSuchSession"} =>
                /\ last'.calls = 0
                /\ last'.value = None
                /\ session_info_cache' = session_info_cache
        /\ (last'.result = "Err" /\ last'.info_queries = 0) =>
                /\ last'.index_queries = 1
                /\ last'.session_index = None
                /\ session_index_cache' = session_index_cache
        /\ (last'.result = "Err" /\ last'.info_queries = 1) =>
                /\ last'.session_index # None
                /\ ~contains(session_info_cache, last'.session_index[1])
        /\ last'.result = "NoSuchSession" <=>
                /\ last'.session_index # None
                /\ last'.info_queries = 1
                /\ last'.result # "Err"
                /\ RuntimeSessions[last'.session_index[1]] = None]_vars

\* a call whose session info query failed while another session is cached
C12_Witness ==
    /\ last.op = "with_session_info"
    /\ last.result = "Err"
    /\ last.index_queries = 1
    /\ last.info_queries = 1
    /\ contains(session_index_cache, last.parent)
    /\ session_info_cache # <<>>

\* C13: a SessionInfo that enters the second level cache has as many groups as the raw
\* session data, in the same order, and each of its groups holds exactly the discovery
\* identities of the validator indices of the raw group, each as often as there, in
\* whatever order the shuffle gave.
C13_ShuffleIsPermutation ==
    [][\A s \in Keys(session_info_cache') \ Keys(session_info_cache) :
        LET raw == RuntimeSessions[s][1]
            out == peek(session_info_cache', s).validator_groups
        IN  /\ Len(out) = Len(raw.validator_groups)
            /\ \A g \in 1..Len(out) :
                  /\ Len(out[g]) = Len(raw.validator_groups[g])
                  /\ \A x \in Range(raw.discovery_keys) \cup Range(out[g]) :
                        Count(out[g], x) =
                            Cardinality({j \in 1..Len(raw.validator_groups[g]) :
                                raw.discovery_keys[raw.validator_groups[g][j] + 1] = x})]_vars

\* the call that derived session 2, whose raw group 1, 2, 3 (d1, d3, d4) came out of the
\* shuffle as d4, d1, d3
C13_Witness ==
    /\ last.op = "with_session_info"
    /\ last.result = "Some"
    /\ last.info_queries = 1
    /\ last.session_index = Some(2)
    /\ contains(session_info_cache, 2)
    /\ peek(session_info_cache, 2).validator_groups = << <<"d4", "d1", "d3">> >>

\* C14: a call that gets the raw data of a session returns "not a validator" exactly when
\* the key store holds the key of none of its validators; otherwise our_index is the
\* smallest index of a validator whose key it holds, and the key store was asked about the
\* validators up to that one only.
C14_FirstMatchIsOurIndex ==
    [][IsLookup =>
        \A s \in SessionIndices :
            (/\ last'.session_index = Some(s)
             /\ last'.info_queries = 1
             /\ last'.result \notin {"Err", "NoSuchSession"}) =>
                LET validators == RuntimeSessions[s][1].validators
                    matches == {i \in 1..Len(validators) : validators[i] \in keystore}
                    first == CHOOSE i \in matches : \A j \in matches : i <= j
                IN  /\ last'.result = "None" <=> matches = {}
                    /\ matches = {} => last'.key_queries = Len(validators)
                    /\ matches # {} => last'.key_queries = first
                    /\ last'.result = "Some" =>
                            peek(session_info_cache', s).our_index = first - 1]_vars

\* the key store holds the keys of validators 0 and 1 of session 1: our_index is 0 and
\* the key store was asked once
C14_Witness ==
    /\ last.op = "with_session_info"
    /\ last.result = "Some"
    /\ last.session_index = Some(1)
    /\ keystore = {"v2", "v3"}
    /\ last.key_queries = 1
    /\ contains(session_info_cache, 1)
    /\ peek(session_info_cache, 1).our_index = 0

\* C15: when the key store holds a key of a validator of the session, the call ends in a
\* panic exactly when no raw group holds our_index or some validator index of some group
\* has no discovery key; the panic is neither a value nor "not a validator": the callback
\* is not invoked, the second level cache is left as it was and no further call is made.
C15_InconsistentDataIsFatal ==
    [][/\ IsLookup =>
            \A s \in SessionIndices :
                (/\ last'.session_index = Some(s)
                 /\ last'.info_queries = 1
                 /\ last'.result \notin {"Err", "NoSuchSession", "None"}) =>
                    LET raw == RuntimeSessions[s][1]
                        matches == {i \in 1..Len(raw.validators) : raw.validators[i] \in keystore}
                        our_index == (CHOOSE i \in matches : \A j \in matches : i <= j) - 1
                        in_group == \E g \in 1..Len(raw.validator_groups) :
                                        our_index \in Range(raw.validator_groups[g])
                        with_key == \A g \in 1..Len(raw.validator_groups) :
                                        \A i \in Range(raw.validator_groups[g]) :
                                            i < Len(raw.discovery_keys)
                    IN  /\ last'.result \in {"Panic", "Some"}
                        /\ last'.result = "Panic" <=> ~(in_group /\ with_key)
                        /\ last'.result = "Panic" =>
                                /\ last'.calls = 0
                                /\ last'.value = None
                                /\ session_info_cache' = session_info_cache
       /\ last.result = "Panic" => UNCHANGED <<session_index_cache, session_info_cache, last>>]_vars

\* a call for session 4, whose validator 1 has no discovery key, made while the key store
\* holds the key of its validator 0 and another session is cached
C15_Witness ==
    /\ last.op = "with_session_info"
    /\ last.result = "Panic"
    /\ last.session_index = Some(4)
    /\ last.key_queries = 1
    /\ last.calls = 0
    /\ session_info_cache # <<>>
    /\ ~contains(session_info_cache, 4)

C18_InfoLifecycle ==
    [][/\ \A s \in Keys(session_info_cache') \ Keys(session_info_cache) :
            /\ IsLookup
            /\ last'.session_index = Some(s)
            /\ last'.info_queries = 1
            /\ last'.result = "Some"
       /\ \A s \in Keys(session_info_cache) \ Keys(session_info_cache') :
            /\ IsLookup
            /\ Len(session_info_cache) = 2
            /\ session_info_cache[2].k = s
            /\ last'.result = "Some"
            /\ last'.session_index # Some(s)
            /\ last'.session_index[1] \in Keys(session_info_cache') \ Keys(session_info_cache)
       /\ last'.op = "report_bad" =>
            Keys(session_info_cache') = Keys(session_info_cache)
       /\ (/\ IsLookup
           /\ \/ last'.result \in {"None", "Err", "NoSuchSession", "Panic"}
              \/ last'.info_queries = 0) =>
            Keys(session_info_cache') = Keys(session_info_cache)]_vars

\* session 2 was cached and then evicted by session 5 after a successful report had made
\* session 1 the more recently used; the last call got "not a validator" for session 4
C18_Witness ==
    /\ last.op = "with_session_info"
    /\ last.parent = 4
    /\ last.result = "None"
    /\ KeySeq(session_info_cache) = <<5, 1>>
    /\ 2 \in Range(used)
    /\ last_reported[1] # None

\* C19: for every cached SessionInfo, our_group is the index of the first raw group that
\* holds our_index, and the discovery identity of our_index is a member of
\* validator_groups[our_group], whatever reports were made against the session.
C19_LocalizationKept ==
    \A i \in 1..Len(session_info_cache) :
        LET info == session_info_cache[i].v
            raw == RuntimeSessions[info.session_index][1]
            holders == {g \in 1..Len(raw.validator_groups) :
                            info.our_index \in Range(raw.validator_groups[g])}
        IN  /\ session_info_cache[i].k = info.session_index
            /\ holders # {}
            /\ info.our_group + 1 \in holders
            /\ \A g \in holders : info.our_group + 1 <= g
            /\ info.our_index + 1 \in 1..Len(raw.discovery_keys)
            /\ raw.discovery_keys[info.our_index + 1]
                    \in Range(info.validator_groups[info.our_group + 1])

\* session 1, of which the node is validator 2 (d1) in group 1, after d1 and d3 were
\* reported against group 1
C19_Witness ==
    /\ last.op = "report_bad"
    /\ last.result = "Ok"
    /\ last.report = [session_index |-> 1, group_index |-> 1, bad_validators |-> <<"d1", "d3">>]
    /\ contains(session_info_cache, 1)
    /\ peek(session_info_cache, 1).our_index = 2
    /\ peek(session_info_cache, 1).our_group = 1
    /\ peek(session_info_cache, 1).validator_groups[2] = <<"d1", "d3">>

\* C20: a report_bad that finds its session cached makes it the most recently used,
\* whether the group is found or not, and one that does not find it changes nothing; so
\* when the call after such a report caches another session while 2 are held, the session
\* reported against is kept as the report left it and the other one is evicted.
C20_ReportCountsAsUse ==
    [][/\ (last'.op = "report_bad" /\ last'.result \in {"Ok", "GroupNotFound"}) =>
            /\ session_info_cache'[1].k = last'.report.session_index
            /\ KeySeq(Tail(session_info_cache')) =
                    SelectSeq(KeySeq(session_info_cache),
                              LAMBDA s : s # last'.report.session_index)
       /\ (last'.op = "report_bad" /\ last'.result = "SessionNotCached") =>
            session_info_cache' = session_info_cache
       /\ (/\ IsLookup
           /\ last.op = "report_bad"
           /\ last.result \in {"Ok", "GroupNotFound"}
           /\ Len(session_info_cache) = 2
           /\ last'.info_queries = 1
           /\ last'.result = "Some") =>
            LET s1 == last.report.session_index
                s2 == session_info_cache[2].k
                s3 == last'.session_index[1]
            IN  /\ s1 # s2
                /\ KeySeq(session_info_cache') = <<s3, s1>>
                /\ peek(session_info_cache', s1) = peek(session_info_cache, s1)
                /\ ~contains(session_info_cache', s2)]_vars

\* session 1 was cached before session 2 and reported against after the last use of
\* session 2; session 5, cached last, evicted session 2 and session 1 is still held with
\* the group order the report left
C20_Witness ==
    /\ used = <<5, 2, 1>>
    /\ KeySeq(session_info_cache) = <<5, 1>>
    /\ last.op = "with_session_info"
    /\ last.parent = 5
    /\ last.info_queries = 1
    /\ last_reported[1] # None
    /\ peek(session_info_cache, 1).validator_groups = last_reported[1][1]

====
